---- MODULE Spec2Model ----
(***************************************************************************)
(* vmmig_bench: a Prometheus exporter for OpenShift Virtualization.        *)
(*                                                                         *)
(* The `start` command runs two activities side by side. A background      *)
(* goroutine polls the cluster API in a loop (virtualmachines per          *)
(* namespace, migrations cluster-wide) and writes three gauge vectors;     *)
(* the /metrics handler gathers the vectors of the registry on request.    *)
(* Both work on the same vectors without a common lock: a routine's        *)
(* request, its answer, each WithLabelValues and each Set are steps of     *)
(* their own, and so are the handler's Collect of each vector and its      *)
(* read of each series.                                                    *)
(*                                                                         *)
(* State: the four metric vectors (label tuple -> value), the position of  *)
(* the background loop and of the routine it is in, the handler's request  *)
(* in progress, and history variables that record what was asked of the    *)
(* API and what it answered.                                               *)
(***************************************************************************)
EXTENDS Integers, Sequences, FiniteSets, TLC

VARIABLES
    serverURL,              \* --server-url, read-only after start
    pc,                     \* the statement of the loop body the goroutine is at
    nsIdx,                  \* index of the loop's namespace in namespaceList
    at,                     \* where the routine at pc is: "call", "wait", "with", "set"
    resp,                   \* the response the routine has decoded and is writing
    idx,                    \* the routine's position in the items it ranges over
    gauge,                  \* the labels of the series WithLabelValues has returned
    vmCountMetric,          \* <<namespace>> -> value
    vmStatusMetric,         \* <<namespace, vm_name, status>> -> value
    failedMigrationsMetric, \* <<namespace>> -> value (never written)
    migrationTimeMetric,    \* <<namespace, vm_name>> -> value
    scrapePc,               \* the /metrics handler: "idle" or "gather"
    toCollect,              \* the vectors whose Collect has not run yet
    toWrite,                \* the series collected whose value has not been read yet
    scrapeOut,              \* the metric families gathered so far
    snapshots,              \* history: the moments of this request that agree with scrapeOut
    lastCall,               \* history: the call that returned last and its response
    calls,                  \* history: the upstream requests of the current cycle
    atCall,                 \* history: the vectors when the current call was made
    seenStatus,             \* history: status label tuples reported by successful polls
    seenCount,              \* history: namespace -> item count of its last successful count poll
    seenDuration            \* history: <<namespace, vm_name>> -> its last parseable entry

metrics == <<vmCountMetric, vmStatusMetric, failedMigrationsMetric, migrationTimeMetric>>

\* the goroutine of the background loop
loopVars == <<pc, nsIdx, at, resp, idx, gauge>>

\* the /metrics handler
scrapeVars == <<scrapePc, toCollect, toWrite, scrapeOut>>

history == <<lastCall, calls, atCall, seenStatus, seenCount, seenDuration>>

vars == <<serverURL, loopVars, metrics, scrapeVars, snapshots, history>>

-----------------------------------------------------------------------------
(* Bounds of the model *)

\* longest items array of a virtualmachines response
MaxItems == 2

\* most vm entries in one migrations response, over all its migrations
MaxVms == 2

-----------------------------------------------------------------------------
(* Configuration *)

\* http.StatusOK
StatusOK == 200

\* strings.Split(namespaces, ",") for --namespaces migrationlab,default
namespaceList == <<"migrationlab", "default">>

GoodURL == "https://api.migrationlab.devopstribe.it:6443"
BadURL == "https://api.migrationlab.devopstribe.it:port"

ServerURLs == {GoodURL, BadURL}

\* http.NewRequest returns (nil, err) when url.Parse rejects the URL; a port
\* that is not a number is such a URL.
NewRequestFails(url) == url = BadURL

-----------------------------------------------------------------------------
(* Upstream responses *)

VmA == "centos-stream10-apricot-slug-73"
VmB == "rocky9-esxi"
VmC == "fedora-41"

\* items of a virtualmachines list: metadata.name and status.printableStatus
VmItems ==
    { [name |-> VmA, printableStatus |-> "Running"],
      [name |-> VmA, printableStatus |-> "Stopped"],
      [name |-> VmB, printableStatus |-> "Running"],
      [name |-> VmC, printableStatus |-> "Running"] }

SeqsUpTo(S, n) == UNION { [1..k -> S] : k \in 0..n }

\* The API server lists each VM of a namespace once: names are unique.
DistinctNames(items) ==
    \A i, j \in 1..Len(items) : i # j => items[i].name # items[j].name

VmLists == { s \in SeqsUpTo(VmItems, MaxItems) : DistinctNames(s) }

\* A response as the routines see it: client.Do's error, the status code,
\* io.ReadAll's error, and the body: whether json.Unmarshal accepts it and the
\* items it decodes.
Response(doErr, code, readErr, json, items) ==
    [doErr |-> doErr, statusCode |-> code, readErr |-> readErr,
     body |-> [json |-> json, items |-> items]]

OkResponse(items) == Response(FALSE, StatusOK, FALSE, TRUE, items)

TransportFailure == Response(TRUE, 0, FALSE, FALSE, <<>>)
Forbidden == Response(FALSE, 403, FALSE, FALSE, <<>>)
BodyReadError == Response(FALSE, StatusOK, TRUE, FALSE, <<>>)
MalformedJSON == Response(FALSE, StatusOK, FALSE, FALSE, <<>>)

FailedResponses == {TransportFailure, Forbidden, BodyReadError, MalformedJSON}

VMListResponses == FailedResponses \cup { OkResponse(s) : s \in VmLists }

\* the answers for a namespace that holds one VM or none
VMListResponsesSmall ==
    FailedResponses \cup
    { OkResponse(<<>>), OkResponse(<<[name |-> VmB, printableStatus |-> "Running"]>>) }

\* what the virtualmachines resource of a namespace may answer: migrationlab
\* holds the VMs of VmItems, default one VM at most
Namespaces == { namespaceList[i] : i \in 1..Len(namespaceList) }

VMListResponsesOf ==
    [namespace \in Namespaces |->
        IF namespace = "migrationlab" THEN VMListResponses ELSE VMListResponsesSmall]

\* the list of a namespace that does not change: one VM in migrationlab, none
\* in default
VMListResponsesOne ==
    [namespace \in Namespaces |->
        IF namespace = "migrationlab"
        THEN {OkResponse(<<[name |-> VmB, printableStatus |-> "Running"]>>)}
        ELSE {OkResponse(<<>>)}]

\* that list, or one of two failures
VMListResponsesFew ==
    [namespace \in Namespaces |->
        {TransportFailure, Forbidden} \cup VMListResponsesOne[namespace]]

\* Timestamps of the migrations resource
T0 == "2025-06-01T10:00:00Z"
T1 == "2025-06-01T12:17:23+02:00"
T2 == "2025-06-02T10:00:00Z"
TYear1 == "0001-01-01T00:00:00Z"
TEmpty == ""
TNoZone == "2025-06-01 10:17:23"

VmEntry(name, started, completed) ==
    [name |-> name, started |-> started, completed |-> completed]

MigrationVmEntries ==
    { VmEntry(VmA, T0, T1),
      VmEntry(VmA, T0, T2),
      VmEntry(VmB, TYear1, T1),
      VmEntry(VmB, TEmpty, T1),
      VmEntry(VmB, T0, TNoZone) }

StatusNamespaces == {"", "migrationlab"}

Migration(ns, vms) == [namespace |-> ns, vms |-> vms]

RECURSIVE CountVms(_)
CountVms(items) ==
    IF items = <<>> THEN 0 ELSE Len(Head(items).vms) + CountVms(Tail(items))

Migrations(n) ==
    { Migration(ns, vms) : ns \in StatusNamespaces, vms \in SeqsUpTo(MigrationVmEntries, n) }

\* one or two migrations holding at most MaxVms vm entries between them
MigrationLists ==
    { s \in SeqsUpTo(Migrations(MaxVms), 2) : CountVms(s) <= MaxVms }

MigrationsResponses == FailedResponses \cup { OkResponse(s) : s \in MigrationLists }

\* one migration of two VMs, the first without a start time
OneMigration == <<Migration("", <<VmEntry(VmB, TEmpty, T1), VmEntry(VmA, T0, T1)>>)>>

MigrationsResponsesFew ==
    FailedResponses \cup {OkResponse(<<>>), OkResponse(OneMigration)}

MigrationsResponsesOne == {TransportFailure, Forbidden, OkResponse(OneMigration)}

-----------------------------------------------------------------------------
(* package time, as far as the migration routine uses it *)

\* time.Parse(time.RFC3339, s) on the timestamps above: whether it succeeds and
\* the instant in UTC, as days since 0001-01-01 and seconds of that day. The
\* zone offset is applied; a missing "T", a missing zone and the empty string
\* are errors.
ParseRFC3339(s) ==
    CASE s = T0     -> [err |-> FALSE, day |-> 739402, sec |-> 36000]
      [] s = T1     -> [err |-> FALSE, day |-> 739402, sec |-> 37043]
      [] s = T2     -> [err |-> FALSE, day |-> 739403, sec |-> 36000]
      [] s = TYear1 -> [err |-> FALSE, day |-> 0, sec |-> 0]
      [] OTHER      -> [err |-> TRUE, day |-> 0, sec |-> 0]

Before(t, u) == t.day < u.day \/ (t.day = u.day /\ t.sec < u.sec)

\* t - u for an instant t not before u, in days and seconds
Elapsed(t, u) ==
    IF t.sec >= u.sec
    THEN [days |-> t.day - u.day, secs |-> t.sec - u.sec]
    ELSE [days |-> t.day - u.day - 1, secs |-> t.sec + 86400 - u.sec]

\* A Duration is an int64 count of nanoseconds, written here as sign, days,
\* seconds and nanoseconds. The largest is 1<<63 - 1 ns and the smallest
\* -1<<63 ns: 106751 days 85636 s and 854775807 (854775808) ns.
maxDuration == [neg |-> FALSE, days |-> 106751, secs |-> 85636, nsec |-> 854775807]
minDuration == [neg |-> TRUE, days |-> 106751, secs |-> 85636, nsec |-> 854775808]

\* whether a span of whole seconds is more than a Duration holds
Overflows(e) ==
    \/ e.days > maxDuration.days
    \/ e.days = maxDuration.days /\ e.secs > maxDuration.secs

\* Time.Sub: t - u, or the largest (smallest) Duration when t - u is out of range
Sub(t, u) ==
    LET e == IF Before(t, u) THEN Elapsed(u, t) ELSE Elapsed(t, u) IN
    IF Overflows(e)
    THEN IF Before(t, u) THEN minDuration ELSE maxDuration
    ELSE [neg |-> Before(t, u), days |-> e.days, secs |-> e.secs, nsec |-> 0]

\* Duration.Seconds: float64(d / Second) + float64(d % Second) / 1e9. A count
\* of whole seconds is exact. The two extreme Durations lie between 2^33 and
\* 2^34 seconds, where float64 values are 2^-19 s apart: both round to
\* 9223372036.854776382..., printed as 9.223372036854776e+09.
Seconds(d) ==
    IF d.nsec = 0
    THEN [neg |-> d.neg /\ (d.days # 0 \/ d.secs # 0), days |-> d.days, secs |-> d.secs, nsec |-> 0]
    ELSE [neg |-> d.neg, days |-> d.days, secs |-> d.secs, nsec |-> 854776382]

\* a float64 number of seconds that is a whole number below one day
WholeSeconds(n) == [neg |-> FALSE, days |-> 0, secs |-> n, nsec |-> 0]

-----------------------------------------------------------------------------
-----------------------------------------------------------------------------
(* The metric vectors *)

NoSeries == [k \in {} |-> 0]

\* vec.WithLabelValues(labels...): the vector with the series of these labels
\* in it, created with the value zero when the vector did not hold it yet
WithLabelValues(vec, labels, zero) ==
    [k \in DOMAIN vec \cup {labels} |-> IF k \in DOMAIN vec THEN vec[k] ELSE zero]

\* Set(v) on the series that WithLabelValues returned
Set(vec, labels, v) == [vec EXCEPT ![labels] = v]

\* the collectors of the registry, by the name of their metric family
Gather ==
    [virtual_machine_count_total |-> vmCountMetric,
     virtual_machine_status |-> vmStatusMetric,
     failed_migrations_total |-> failedMigrationsMetric,
     virtual_machine_migration_time_seconds |-> migrationTimeMetric]

Families == DOMAIN Gather

\* the vectors m hold what the handler has gathered: of each vector collected
\* the very series handed over, and of each series read the value read
Agrees(m, notCollected, notWritten, out) ==
    \A n \in Families \ notCollected :
        /\ DOMAIN m[n] = DOMAIN out[n] \cup { w[2] : w \in { v \in notWritten : v[1] = n } }
        /\ \A k \in DOMAIN out[n] : m[n][k] = out[n][k]

-----------------------------------------------------------------------------
(* What the routines compute *)

\* the call passed every error check: client.Do, the status code, io.ReadAll
\* and json.Unmarshal
Succeeded(r) ==
    ~r.doErr /\ r.statusCode = StatusOK /\ ~r.readErr /\ r.body.json

\* mutant: the label values are passed as (namespace, status, vm_name)
StatusLabelsSwapped(namespace, vm) == <<namespace, vm.printableStatus, vm.name>>

\* the label values of an item of the virtualmachines list
StatusLabels(namespace, vm) == <<namespace, vm.name, vm.printableStatus>>

\* the label tuples a virtualmachines list reports for a namespace
StatusTuples(namespace, items) ==
    { <<namespace, items[n].name, items[n].printableStatus>> : n \in 1..Len(items) }

\* mutant: only the items that are Running are counted
CountRunning(items) ==
    Cardinality({ n \in 1..Len(items) : items[n].printableStatus = "Running" })

\* count := len(vmList.Items)
Count(items) == Len(items)

\* mutant: started.Sub(completed)
MigrationDurationSwapped(started, completed) == Seconds(Sub(started, completed))

\* mutant: a duration above 60 is divided by 60 (minutes)
MigrationDurationMinutes(started, completed) ==
    LET d == Seconds(Sub(completed, started)) IN
    IF d.days = 0 /\ d.secs > 60
    THEN [d EXCEPT !.secs = d.secs \div 60,
                   !.nsec = (((d.secs % 60) * 10000000) \div 6) * 10]
    ELSE d

\* duration := completed.Sub(started).Seconds()
MigrationDuration(started, completed) == Seconds(Sub(completed, started))

\* the vm entries of a migrations list in the order the two nested loops visit
\* them, each with the position and the status.namespace of its migration
RECURSIVE FlattenFrom(_, _)
FlattenFrom(items, n) ==
    IF n > Len(items) THEN <<>>
    ELSE [m \in 1..Len(items[n].vms) |->
            [item |-> n, namespace |-> items[n].namespace, vm |-> items[n].vms[m]]]
         \o FlattenFrom(items, n + 1)

Flatten(items) == FlattenFrom(items, 1)

Parseable(vm) == ~ParseRFC3339(vm.started).err /\ ~ParseRFC3339(vm.completed).err

\* mutant: break for continue, the loop over the migration's vms ends at an
\* entry that does not parse
AfterParseErrorBreak(flat, n) ==
    IF \E m \in n + 1..Len(flat) : flat[m].item # flat[n].item
    THEN CHOOSE m \in n + 1..Len(flat) :
            /\ flat[m].item # flat[n].item
            /\ \A l \in n + 1..m - 1 : flat[l].item = flat[n].item
    ELSE Len(flat) + 1

\* continue: the entry the loops visit next
AfterParseError(flat, n) == n + 1

-----------------------------------------------------------------------------
(* History *)

Call(routine, namespace, r) ==
    [routine |-> routine, namespace |-> namespace, resp |-> r]

NoResponse == TransportFailure

NoCall == Call("none", "", NoResponse)

\* the positions of the parseable entries that carry the labels key
ParseableAt(flat, key) ==
    { n \in 1..Len(flat) :
        /\ <<flat[n].namespace, flat[n].vm.name>> = key
        /\ Parseable(flat[n].vm) }

DurationKeys(flat) ==
    { k \in { <<flat[n].namespace, flat[n].vm.name>> : n \in 1..Len(flat) } :
        ParseableAt(flat, k) # {} }

LastAt(flat, key) ==
    CHOOSE n \in ParseableAt(flat, key) : \A m \in ParseableAt(flat, key) : m <= n

\* seenDuration after a successful migrations response
RecordDurations(seen, items) ==
    LET flat == Flatten(items) IN
    [k \in DOMAIN seen \cup DurationKeys(flat) |->
        IF k \in DurationKeys(flat) THEN flat[LastAt(flat, k)].vm ELSE seen[k]]

-----------------------------------------------------------------------------
(* The background loop of startCmd.Run *)

\* mutant: the migration call sits inside the loop over the namespaces
NextPositionMigrationInside(p, n) ==
    CASE p = "count" -> [pc |-> "status", nsIdx |-> n]
      [] p = "status" -> [pc |-> "migration", nsIdx |-> n]
      [] p = "migration" ->
            IF n < Len(namespaceList)
            THEN [pc |-> "count", nsIdx |-> n + 1]
            ELSE [pc |-> "sleep", nsIdx |-> 1]
      [] OTHER -> [pc |-> "count", nsIdx |-> 1]

\* for { for _, namespace := range namespaceList { count; status }; migration; sleep }
NextPosition(p, n) ==
    CASE p = "count" -> [pc |-> "status", nsIdx |-> n]
      [] p = "status" ->
            IF n < Len(namespaceList)
            THEN [pc |-> "count", nsIdx |-> n + 1]
            ELSE [pc |-> "migration", nsIdx |-> 1]
      [] p = "migration" -> [pc |-> "sleep", nsIdx |-> 1]
      [] OTHER -> [pc |-> "count", nsIdx |-> 1]

\* the namespace argument of the routine at pc
Namespace == IF pc \in {"count", "status"} THEN namespaceList[nsIdx] ELSE ""

\* the request the routine at pc sends
AboutToCall == <<pc, Namespace>>

NoGauge == <<>>

\* no request is being served
NoScrape == [n \in {} |-> NoSeries]

Init ==
    /\ serverURL \in ServerURLs
    /\ pc = "count"
    /\ nsIdx = 1
    /\ at = "call"
    /\ resp = NoResponse
    /\ idx = 0
    /\ gauge = NoGauge
    /\ vmCountMetric = NoSeries
    /\ vmStatusMetric = NoSeries
    /\ failedMigrationsMetric = NoSeries
    /\ migrationTimeMetric = NoSeries
    /\ scrapePc = "idle"
    /\ toCollect = {}
    /\ toWrite = {}
    /\ scrapeOut = NoScrape
    /\ snapshots = {}
    /\ lastCall = NoCall
    /\ calls = <<>>
    /\ atCall = <<NoSeries, NoSeries, NoSeries, NoSeries>>
    /\ seenStatus = {}
    /\ seenCount = NoSeries
    /\ seenDuration = NoSeries

\* a step of the loop that writes a vector: the vectors as they are after it
\* are a moment of the request in progress
Remember ==
    snapshots' = IF scrapePc = "gather"
                 THEN { m \in snapshots \cup {Gather'} :
                          Agrees(m, toCollect, toWrite, scrapeOut) }
                 ELSE snapshots

\* a panic in the loop's goroutine ends the process, the handler with it
Crash ==
    /\ pc' = "panicked"
    /\ scrapePc' = "idle"
    /\ toCollect' = {}
    /\ toWrite' = {}
    /\ scrapeOut' = NoScrape
    /\ snapshots' = {}
    /\ UNCHANGED <<serverURL, nsIdx, at, resp, idx, gauge, metrics, history>>

\* http.NewRequest, req.URL.String() on its result, then client.Do(req): the
\* request is on its way, or req was nil
Do ==
    IF NewRequestFails(serverURL) THEN Crash
    ELSE /\ at' = "wait"
         /\ calls' = Append(calls, AboutToCall)
         /\ lastCall' = NoCall
         /\ atCall' = metrics
         /\ UNCHANGED <<serverURL, pc, nsIdx, resp, idx, gauge, metrics, scrapeVars,
                        snapshots, seenStatus, seenCount, seenDuration>>

\* the routine returns, having got r, and the loop is at its next statement
Return(r) ==
    /\ pc' = NextPosition(pc, nsIdx).pc
    /\ nsIdx' = NextPosition(pc, nsIdx).nsIdx
    /\ at' = "call"
    /\ resp' = NoResponse
    /\ idx' = 0
    /\ gauge' = NoGauge
    /\ lastCall' = Call(pc, Namespace, r)

\* the routine goes on to write the response r, from the first of its items
Write(r) ==
    /\ at' = "with"
    /\ resp' = r
    /\ idx' = 1
    /\ UNCHANGED <<pc, nsIdx, gauge, lastCall>>

\* the loop over the response's items goes to its next item, or the routine returns
NextItem(n, len) ==
    IF n <= len
    THEN /\ at' = "with"
         /\ idx' = n
         /\ gauge' = NoGauge
         /\ UNCHANGED <<pc, nsIdx, resp, lastCall>>
    ELSE Return(resp)

(* exportVirtualMachineCount *)

CountCall ==
    /\ pc = "count"
    /\ at = "call"
    /\ Do

\* mutant: the 0 returned with an error is written to the gauge
CountAnswerZeroOnError(responsesOf) ==
    /\ pc = "count"
    /\ at = "wait"
    /\ \E r \in responsesOf[Namespace] :
         /\ IF ~Succeeded(r)
            THEN /\ Return(r)
                 /\ vmCountMetric' = Set(WithLabelValues(vmCountMetric, <<Namespace>>, 0),
                                         <<Namespace>>, 0)
                 /\ UNCHANGED seenCount
            ELSE /\ Write(r)
                 /\ seenCount' = Set(WithLabelValues(seenCount, <<Namespace>>, 0),
                                     <<Namespace>>, Len(r.body.items))
                 /\ UNCHANGED vmCountMetric
         /\ UNCHANGED <<serverURL, vmStatusMetric, failedMigrationsMetric,
                        migrationTimeMetric, scrapeVars, calls, atCall, seenStatus,
                        seenDuration>>
         /\ Remember

\* client.Do returns: an error return, or the list is decoded
CountAnswer(responsesOf) ==
    /\ pc = "count"
    /\ at = "wait"
    /\ \E r \in responsesOf[Namespace] :
         /\ IF r.doErr THEN Return(r) /\ UNCHANGED seenCount
            ELSE IF r.statusCode # StatusOK THEN Return(r) /\ UNCHANGED seenCount
            ELSE IF r.readErr THEN Return(r) /\ UNCHANGED seenCount
            ELSE IF ~r.body.json THEN Return(r) /\ UNCHANGED seenCount
            ELSE /\ Write(r)
                 /\ seenCount' = Set(WithLabelValues(seenCount, <<Namespace>>, 0),
                                     <<Namespace>>, Len(r.body.items))
         /\ UNCHANGED <<serverURL, metrics, scrapeVars, snapshots, calls, atCall,
                        seenStatus, seenDuration>>

\* vmCountMetric.WithLabelValues(namespace)
CountWithLabelValues ==
    /\ pc = "count"
    /\ at = "with"
    /\ vmCountMetric' = WithLabelValues(vmCountMetric, <<Namespace>>, 0)
    /\ gauge' = <<Namespace>>
    /\ at' = "set"
    /\ UNCHANGED <<serverURL, pc, nsIdx, resp, idx, vmStatusMetric, failedMigrationsMetric,
                   migrationTimeMetric, scrapeVars, history>>
    /\ Remember

\* .Set(float64(count)), and the return
CountSet ==
    /\ pc = "count"
    /\ at = "set"
    /\ vmCountMetric' = Set(vmCountMetric, gauge, Count(resp.body.items))
    /\ Return(resp)
    /\ UNCHANGED <<serverURL, vmStatusMetric, failedMigrationsMetric, migrationTimeMetric,
                   scrapeVars, calls, atCall, seenStatus, seenCount, seenDuration>>
    /\ Remember

(* exportVirtualMachineNamesAndStatuses *)

StatusCall ==
    /\ pc = "status"
    /\ at = "call"
    /\ Do

\* mutant: the series of the namespace are deleted when a list has been decoded
StatusAnswerReset(responsesOf) ==
    /\ pc = "status"
    /\ at = "wait"
    /\ \E r \in responsesOf[Namespace] :
         /\ IF ~Succeeded(r)
            THEN Return(r) /\ UNCHANGED <<seenStatus, vmStatusMetric>>
            ELSE /\ IF r.body.items = <<>> THEN Return(r) ELSE Write(r)
                 /\ seenStatus' = seenStatus \cup StatusTuples(Namespace, r.body.items)
                 /\ vmStatusMetric' =
                       [t \in { u \in DOMAIN vmStatusMetric : u[1] # Namespace } |->
                           vmStatusMetric[t]]
         /\ UNCHANGED <<serverURL, vmCountMetric, failedMigrationsMetric,
                        migrationTimeMetric, scrapeVars, calls, atCall, seenCount,
                        seenDuration>>
         /\ Remember

\* client.Do returns: an error return, or the list is decoded and the loop over
\* its items begins (with no items, the routine returns)
StatusAnswer(responsesOf) ==
    /\ pc = "status"
    /\ at = "wait"
    /\ \E r \in responsesOf[Namespace] :
         /\ IF r.doErr THEN Return(r) /\ UNCHANGED seenStatus
            ELSE IF r.statusCode # StatusOK THEN Return(r) /\ UNCHANGED seenStatus
            ELSE IF r.readErr THEN Return(r) /\ UNCHANGED seenStatus
            ELSE IF ~r.body.json THEN Return(r) /\ UNCHANGED seenStatus
            ELSE /\ IF r.body.items = <<>> THEN Return(r) ELSE Write(r)
                 /\ seenStatus' = seenStatus \cup StatusTuples(Namespace, r.body.items)
         /\ UNCHANGED <<serverURL, metrics, scrapeVars, snapshots, calls, atCall,
                        seenCount, seenDuration>>

\* vmStatusMetric.WithLabelValues(namespace, vm.Metadata.Name, vm.Status.PrintableStatus)
StatusWithLabelValues ==
    /\ pc = "status"
    /\ at = "with"
    /\ vmStatusMetric' = WithLabelValues(vmStatusMetric,
                                         StatusLabels(Namespace, resp.body.items[idx]), 0)
    /\ gauge' = StatusLabels(Namespace, resp.body.items[idx])
    /\ at' = "set"
    /\ UNCHANGED <<serverURL, pc, nsIdx, resp, idx, vmCountMetric, failedMigrationsMetric,
                   migrationTimeMetric, scrapeVars, history>>
    /\ Remember

\* .Set(1), then the next item or the return
StatusSet ==
    /\ pc = "status"
    /\ at = "set"
    /\ vmStatusMetric' = Set(vmStatusMetric, gauge, 1)
    /\ NextItem(idx + 1, Len(resp.body.items))
    /\ UNCHANGED <<serverURL, vmCountMetric, failedMigrationsMetric, migrationTimeMetric,
                   scrapeVars, calls, atCall, seenStatus, seenCount, seenDuration>>
    /\ Remember

(* exportVirtualMachineMigrationTime *)

MigrationCall ==
    /\ pc = "migration"
    /\ at = "call"
    /\ Do

\* mutant: resp.Body.Close() is deferred before err is looked at, so a
\* transport failure dereferences a nil response
MigrationAnswerNilResp(responses) ==
    /\ pc = "migration"
    /\ at = "wait"
    /\ \E r \in responses :
         IF r.doErr THEN Crash
         ELSE /\ IF ~Succeeded(r) THEN Return(r) /\ UNCHANGED seenDuration
                 ELSE /\ IF Flatten(r.body.items) = <<>> THEN Return(r) ELSE Write(r)
                      /\ seenDuration' = RecordDurations(seenDuration, r.body.items)
              /\ UNCHANGED <<serverURL, metrics, scrapeVars, snapshots, calls, atCall,
                             seenStatus, seenCount>>

\* client.Do returns: an error return, or the list is decoded and the loops
\* over the migrations and their vms begin (with no vm, the routine returns)
MigrationAnswer(responses) ==
    /\ pc = "migration"
    /\ at = "wait"
    /\ \E r \in responses :
         /\ IF r.doErr THEN Return(r) /\ UNCHANGED seenDuration
            ELSE IF r.statusCode # StatusOK THEN Return(r) /\ UNCHANGED seenDuration
            ELSE IF r.readErr THEN Return(r) /\ UNCHANGED seenDuration
            ELSE IF ~r.body.json THEN Return(r) /\ UNCHANGED seenDuration
            ELSE /\ IF Flatten(r.body.items) = <<>> THEN Return(r) ELSE Write(r)
                 /\ seenDuration' = RecordDurations(seenDuration, r.body.items)
         /\ UNCHANGED <<serverURL, metrics, scrapeVars, snapshots, calls, atCall,
                        seenStatus, seenCount>>

\* the vm entry the loops are at
Entry == Flatten(resp.body.items)[idx]

\* time.Parse fails on started or completed: continue
MigrationSkip ==
    /\ pc = "migration"
    /\ at = "with"
    /\ ~Parseable(Entry.vm)
    /\ NextItem(AfterParseError(Flatten(resp.body.items), idx),
                Len(Flatten(resp.body.items)))
    /\ UNCHANGED <<serverURL, metrics, scrapeVars, snapshots, calls, atCall, seenStatus,
                   seenCount, seenDuration>>

\* both timestamps parse:
\* migrationTimeMetric.WithLabelValues(migration.Status.Namespace, vm.Name)
MigrationWithLabelValues ==
    /\ pc = "migration"
    /\ at = "with"
    /\ Parseable(Entry.vm)
    /\ migrationTimeMetric' = WithLabelValues(migrationTimeMetric,
                                              <<Entry.namespace, Entry.vm.name>>,
                                              WholeSeconds(0))
    /\ gauge' = <<Entry.namespace, Entry.vm.name>>
    /\ at' = "set"
    /\ UNCHANGED <<serverURL, pc, nsIdx, resp, idx, vmCountMetric, vmStatusMetric,
                   failedMigrationsMetric, scrapeVars, history>>
    /\ Remember

\* .Set(duration), then the next vm entry or the return
MigrationSet ==
    /\ pc = "migration"
    /\ at = "set"
    /\ migrationTimeMetric' =
          Set(migrationTimeMetric, gauge,
              MigrationDuration(ParseRFC3339(Entry.vm.started),
                                ParseRFC3339(Entry.vm.completed)))
    /\ NextItem(idx + 1, Len(Flatten(resp.body.items)))
    /\ UNCHANGED <<serverURL, vmCountMetric, vmStatusMetric, failedMigrationsMetric,
                   scrapeVars, calls, atCall, seenStatus, seenCount, seenDuration>>
    /\ Remember

\* time.Sleep, then the next cycle
SleepStep ==
    /\ pc = "sleep"
    /\ pc' = NextPosition(pc, nsIdx).pc
    /\ nsIdx' = NextPosition(pc, nsIdx).nsIdx
    /\ calls' = <<>>
    /\ lastCall' = NoCall
    /\ atCall' = metrics
    /\ UNCHANGED <<serverURL, at, resp, idx, gauge, metrics, scrapeVars, snapshots,
                   seenStatus, seenCount, seenDuration>>

-----------------------------------------------------------------------------
(* GET /metrics: promhttp.HandlerFor(registry) *)

\* mutant: the handler polls the count of the first namespace before it gathers
ScrapeArrivePolls ==
    /\ pc # "panicked"
    /\ scrapePc = "idle"
    /\ \E r \in VMListResponsesFew[namespaceList[1]] :
         vmCountMetric' =
            IF Succeeded(r)
            THEN Set(WithLabelValues(vmCountMetric, <<namespaceList[1]>>, 0),
                     <<namespaceList[1]>>, Len(r.body.items))
            ELSE vmCountMetric
    /\ calls' = Append(calls, <<"count", namespaceList[1]>>)
    /\ scrapePc' = "gather"
    /\ toCollect' = Families
    /\ toWrite' = {}
    /\ scrapeOut' = [n \in Families |-> NoSeries]
    /\ UNCHANGED <<serverURL, loopVars, vmStatusMetric, failedMigrationsMetric,
                   migrationTimeMetric, lastCall, atCall, seenStatus, seenCount,
                   seenDuration>>
    /\ snapshots' = {Gather'}

\* a request arrives and the registry starts to gather
ScrapeArrive ==
    /\ pc # "panicked"
    /\ scrapePc = "idle"
    /\ scrapePc' = "gather"
    /\ toCollect' = Families
    /\ toWrite' = {}
    /\ scrapeOut' = [n \in Families |-> NoSeries]
    /\ snapshots' = {Gather}
    /\ UNCHANGED <<serverURL, loopVars, metrics, history>>

\* Collect of one vector: under the vector's lock, the series it holds now are
\* handed over, their values still to be read
ScrapeCollect ==
    /\ scrapePc = "gather"
    /\ \E n \in toCollect :
         /\ toCollect' = toCollect \ {n}
         /\ toWrite' = toWrite \cup { <<n, k>> : k \in DOMAIN Gather[n] }
    /\ UNCHANGED <<serverURL, loopVars, metrics, history, scrapePc, scrapeOut>>
    /\ snapshots' = { m \in snapshots : Agrees(m, toCollect', toWrite', scrapeOut') }

\* Write of one series: its value now goes into its family
ScrapeWrite ==
    /\ scrapePc = "gather"
    /\ \E w \in toWrite :
         /\ toWrite' = toWrite \ {w}
         /\ scrapeOut' = [scrapeOut EXCEPT ![w[1]] =
                             Set(WithLabelValues(@, w[2], 0), w[2], Gather[w[1]][w[2]])]
    /\ UNCHANGED <<serverURL, loopVars, metrics, history, scrapePc, toCollect>>
    /\ snapshots' = { m \in snapshots : Agrees(m, toCollect', toWrite', scrapeOut') }

\* every vector is collected and every series written: the response is sent
ScrapeServe ==
    /\ scrapePc = "gather"
    /\ toCollect = {}
    /\ toWrite = {}
    /\ scrapePc' = "idle"
    /\ scrapeOut' = NoScrape
    /\ snapshots' = {}
    /\ UNCHANGED <<serverURL, loopVars, metrics, history, toCollect, toWrite>>

Handler == ScrapeArrive \/ ScrapeCollect \/ ScrapeWrite \/ ScrapeServe

-----------------------------------------------------------------------------
(* The program *)

\* the steps of the background goroutine, with what the two resources answer
Loop(vmResponsesOf, migrationsResponses) ==
    \/ CountCall
    \/ CountAnswer(vmResponsesOf)
    \/ CountWithLabelValues
    \/ CountSet
    \/ StatusCall
    \/ StatusAnswer(vmResponsesOf)
    \/ StatusWithLabelValues
    \/ StatusSet
    \/ MigrationCall
    \/ MigrationAnswer(migrationsResponses)
    \/ MigrationSkip
    \/ MigrationWithLabelValues
    \/ MigrationSet
    \/ SleepStep

LoopFew == Loop(VMListResponsesFew, MigrationsResponsesOne)

\* the loop and the handler side by side
Next == LoopFew \/ Handler

Spec == Init /\ [][Next]_vars

\* The handler writes no variable of the loop, of the vectors or of their
\* history (C8): what the loop and the vectors can reach is the same with the
\* handler and without. The specifications below follow the goroutine of the
\* loop by itself.

\* the loop kept scheduled: every request is answered, and time.Sleep returns
FairSpec == Init /\ [][LoopFew]_vars /\ WF_vars(LoopFew)

NextVms == Loop(VMListResponsesOf, MigrationsResponsesFew)

\* the virtualmachines resource answering in every way
SpecVms == Init /\ [][NextVms]_vars

NextMig == Loop(VMListResponsesOne, MigrationsResponses)

\* the migrations resource answering in every way
SpecMig == Init /\ [][NextMig]_vars

-----------------------------------------------------------------------------
(* Properties *)

\* the routine that returned last got a response that passed every check
CallReturned(routine) == lastCall.routine = routine /\ Succeeded(lastCall.resp)

\* a step in which a routine returns
ReturnStep == lastCall' # lastCall /\ lastCall'.routine # "none"

\* the routine is between the decoding of a response and its return
Writing(routine) == pc = routine /\ at \in {"with", "set"}

\* C1: after exportVirtualMachineCount has returned from a 200 response with
\* decodable JSON, the count gauge of its namespace is the length of the
\* response's items array, 0 for an empty array, whatever the items' statuses.
C1_CountIsItemCount ==
    CallReturned("count") =>
        /\ <<lastCall.namespace>> \in DOMAIN vmCountMetric
        /\ vmCountMetric[<<lastCall.namespace>>] = Len(lastCall.resp.body.items)

\* default has just been counted as empty while migrationlab holds two VMs,
\* one of them stopped
C1_Witness ==
    /\ CallReturned("count")
    /\ lastCall.namespace = "default"
    /\ lastCall.resp.body.items = <<>>
    /\ <<"default">> \in DOMAIN vmCountMetric
    /\ vmCountMetric[<<"default">>] = 0
    /\ <<"migrationlab">> \in DOMAIN vmCountMetric
    /\ vmCountMetric[<<"migrationlab">>] = 2
    /\ <<"migrationlab", VmA, "Stopped">> \in DOMAIN vmStatusMetric

\* the status series of one VM of one namespace
SeriesOfVm(namespace, name) ==
    { t \in DOMAIN vmStatusMetric : t[1] = namespace /\ t[2] = name }

\* C2 as stated: after a status poll every reported (namespace, vm, status) has
\* the value 1, and the VM has no series with any other status.
C2_NoOtherStatus ==
    CallReturned("status") =>
        \A t \in StatusTuples(lastCall.namespace, lastCall.resp.body.items) :
            /\ t \in DOMAIN vmStatusMetric
            /\ vmStatusMetric[t] = 1
            /\ SeriesOfVm(t[1], t[2]) = {t}

\* C2, amended: after a status poll every reported (namespace, vm, status) has
\* the value 1; and at all times a status series carries a status that some
\* successful poll of its namespace reported for its VM and has the value 1,
\* but for the series the routine has just created and not yet set, which is 0.
C2_OnlyReportedStatuses ==
    /\ CallReturned("status") =>
          \A t \in StatusTuples(lastCall.namespace, lastCall.resp.body.items) :
              t \in DOMAIN vmStatusMetric /\ vmStatusMetric[t] = 1
    /\ \A t \in DOMAIN vmStatusMetric :
          /\ t \in seenStatus
          /\ \/ vmStatusMetric[t] = 1
             \/ /\ vmStatusMetric[t] = 0
                /\ pc = "status"
                /\ at = "set"
                /\ gauge = t

\* a VM reported Stopped that an earlier poll reported Running
C2_Witness ==
    /\ CallReturned("status")
    /\ lastCall.namespace = "migrationlab"
    /\ lastCall.resp.body.items = <<[name |-> VmB, printableStatus |-> "Running"],
                                    [name |-> VmA, printableStatus |-> "Stopped"]>>
    /\ SeriesOfVm("migrationlab", VmA) =
          { <<"migrationlab", VmA, "Running">>, <<"migrationlab", VmA, "Stopped">> }

\* completed - started in seconds, as a number
ExactSeconds(started, completed) ==
    LET s == ParseRFC3339(started)
        c == ParseRFC3339(completed)
        e == IF Before(c, s) THEN Elapsed(s, c) ELSE Elapsed(c, s)
    IN  [neg |-> Before(c, s), days |-> e.days, secs |-> e.secs, nsec |-> 0]

\* 9223372036.854776 s, the float64 of the largest Duration
LargestSeconds == [neg |-> FALSE, days |-> 106751, secs |-> 85636, nsec |-> 854776382]

FitsDuration(x) ==
    x.days < 106751 \/ (x.days = 106751 /\ x.secs <= 85636)

\* completed - started in seconds, cut off at the largest and smallest Duration
ClampedSeconds(started, completed) ==
    LET x == ExactSeconds(started, completed) IN
    IF FitsDuration(x) THEN x ELSE [LargestSeconds EXCEPT !.neg = x.neg]

StartedBeforeCompleted(vm) ==
    Parseable(vm) /\ Before(ParseRFC3339(vm.started), ParseRFC3339(vm.completed))

NonNegative(x) == ~x.neg

\* C3 as stated: after a successful migrations poll, every vm entry with valid
\* started < completed has its duration gauge at completed - started seconds.
C3_DurationOfEveryEntry ==
    CallReturned("migration") =>
        LET flat == Flatten(lastCall.resp.body.items) IN
        \A n \in 1..Len(flat) :
            StartedBeforeCompleted(flat[n].vm) =>
                LET k == <<flat[n].namespace, flat[n].vm.name>> IN
                /\ k \in DOMAIN migrationTimeMetric
                /\ migrationTimeMetric[k] =
                      ExactSeconds(flat[n].vm.started, flat[n].vm.completed)
                /\ NonNegative(migrationTimeMetric[k])

\* C3, amended: the gauge of (namespace, vm name) holds the duration of the
\* last parseable entry of the response with those labels: for started <
\* completed that is completed - started seconds when the difference fits a
\* Duration and the largest Duration in seconds when it does not, never negative.
C3_DurationOfLastEntry ==
    CallReturned("migration") =>
        LET flat == Flatten(lastCall.resp.body.items) IN
        \A k \in DurationKeys(flat) :
            LET vm == flat[LastAt(flat, k)].vm IN
            StartedBeforeCompleted(vm) =>
                /\ k \in DOMAIN migrationTimeMetric
                /\ migrationTimeMetric[k] =
                      IF FitsDuration(ExactSeconds(vm.started, vm.completed))
                      THEN ExactSeconds(vm.started, vm.completed)
                      ELSE LargestSeconds
                /\ NonNegative(migrationTimeMetric[k])

\* one migration of 1043 s and one that started in year 1
C3_Witness ==
    /\ CallReturned("migration")
    /\ lastCall.resp.body.items =
          <<Migration("", <<VmEntry(VmA, T0, T1), VmEntry(VmB, TYear1, T1)>>)>>
    /\ <<"", VmA>> \in DOMAIN migrationTimeMetric
    /\ migrationTimeMetric[<<"", VmA>>] = WholeSeconds(1043)
    /\ <<"", VmB>> \in DOMAIN migrationTimeMetric
    /\ migrationTimeMetric[<<"", VmB>>] = LargestSeconds

SameSeries(vec1, vec2, k) ==
    /\ k \in DOMAIN vec1 <=> k \in DOMAIN vec2
    /\ k \in DOMAIN vec1 => vec1[k] = vec2[k]

DurationLabels == StatusNamespaces \X {VmA, VmB}

\* C4: in a migrations poll an entry whose started or completed does not parse
\* writes nothing and the loops go on to the entry after it; when the routine
\* has returned, labels with a parseable entry, before or after the bad one,
\* hold the duration of their last parseable entry, and every other series is
\* as it was when the call was made.
C4_UnparseableSkipped ==
    /\ [][ (/\ pc = "migration"
            /\ at = "with"
            /\ ~Parseable(Entry.vm)
            /\ <<pc, idx>>' # <<pc, idx>>) =>
                /\ UNCHANGED metrics
                /\ IF idx < Len(Flatten(resp.body.items))
                   THEN pc' = pc /\ at' = "with" /\ idx' = idx + 1
                   ELSE pc' = "sleep" /\ lastCall'.resp = resp ]_vars
    /\ [](CallReturned("migration") =>
            \A flat \in {Flatten(lastCall.resp.body.items)} :
            \A keys \in {DurationKeys(flat)} :
            \A k \in DurationLabels :
                IF k \in keys
                THEN /\ k \in DOMAIN migrationTimeMetric
                     /\ \A vm \in {flat[LastAt(flat, k)].vm} :
                           migrationTimeMetric[k] =
                               ClampedSeconds(vm.started, vm.completed)
                ELSE SameSeries(migrationTimeMetric, atCall[4], k))

\* an entry with an empty started ahead of a parseable sibling, polled when the
\* first VM had a duration from an earlier poll
C4_Witness ==
    /\ CallReturned("migration")
    /\ lastCall.resp.body.items =
          <<Migration("", <<VmEntry(VmB, TEmpty, T1), VmEntry(VmA, T0, T1)>>)>>
    /\ <<"", VmA>> \in DOMAIN migrationTimeMetric
    /\ <<"", VmA>> \notin DOMAIN atCall[4]
    /\ migrationTimeMetric[<<"", VmA>>] = WholeSeconds(1043)
    /\ <<"", VmB>> \in DOMAIN migrationTimeMetric
    /\ migrationTimeMetric[<<"", VmB>>] = LargestSeconds

\* C5: a call of a collection routine that fails (transport failure, non-200
\* status, body read error, undecodable JSON) leaves every series of every
\* metric as it was: the vectors are as they were when the call was made while
\* the answer is awaited and when the routine has returned.
C5_FailedPollKeepsValues ==
    /\ at = "wait" => metrics = atCall
    /\ (lastCall.routine # "none" /\ ~Succeeded(lastCall.resp)) => metrics = atCall

\* a 403 for the count of migrationlab, whose gauge stays at 2
C5_Witness ==
    /\ lastCall = Call("count", "migrationlab", Forbidden)
    /\ <<"migrationlab">> \in DOMAIN vmCountMetric
    /\ vmCountMetric[<<"migrationlab">>] = 2
    /\ vmStatusMetric # NoSeries
    /\ migrationTimeMetric # NoSeries

\* C6 as stated: every series stems from the most recent successful response
\* of its routine: right after a successful poll, the count is the response's
\* item count, every status series of the polled namespace is an item of the
\* response, and every duration series is a parseable entry of the response.
C6_OnlyLatestPoll ==
    /\ CallReturned("count") =>
          /\ <<lastCall.namespace>> \in DOMAIN vmCountMetric
          /\ vmCountMetric[<<lastCall.namespace>>] = Len(lastCall.resp.body.items)
    /\ CallReturned("status") =>
          \A t \in DOMAIN vmStatusMetric :
              t[1] = lastCall.namespace =>
                  t \in StatusTuples(lastCall.namespace, lastCall.resp.body.items)
    /\ CallReturned("migration") =>
          \A k \in DOMAIN migrationTimeMetric :
              k \in DurationKeys(Flatten(lastCall.resp.body.items))

\* the labels of the response a routine is in the middle of writing
TouchedCount == IF Writing("count") THEN {<<Namespace>>} ELSE {}

TouchedStatus ==
    IF Writing("status") THEN StatusTuples(Namespace, resp.body.items) ELSE {}

TouchedDuration ==
    IF Writing("migration") THEN DurationKeys(Flatten(resp.body.items)) ELSE {}

\* C6, amended: every series holds what the most recent successful poll that
\* reported it wrote, and no series is ever dropped: a count series per
\* namespace counted so far, with the item count of its last successful count
\* response; a status series with value 1 per (namespace, vm, status) ever
\* reported; a duration series per (namespace, vm) that ever had a parseable
\* entry, with the duration of the last such entry of the last response that
\* had one; and no series of failed_migrations_total. While a routine writes a
\* response, the series of that response are the exception: each is as it was
\* before the call, or 0 between its creation and its Set, or written.
C6_LatestWriteOfEachSeries ==
    /\ \A k \in (DOMAIN vmCountMetric \cup DOMAIN seenCount) \ TouchedCount :
          /\ k \in DOMAIN vmCountMetric
          /\ k \in DOMAIN seenCount
          /\ vmCountMetric[k] = seenCount[k]
    /\ \A k \in TouchedCount \cap DOMAIN vmCountMetric :
          \/ vmCountMetric[k] = seenCount[k]
          \/ SameSeries(vmCountMetric, atCall[1], k)
          \/ vmCountMetric[k] = 0 /\ k \notin DOMAIN atCall[1] /\ gauge = k
    /\ \A t \in (DOMAIN vmStatusMetric \cup seenStatus) \ TouchedStatus :
          /\ t \in DOMAIN vmStatusMetric
          /\ t \in seenStatus
          /\ vmStatusMetric[t] = 1
    /\ \A t \in TouchedStatus \cap DOMAIN vmStatusMetric :
          \/ vmStatusMetric[t] = 1
          \/ vmStatusMetric[t] = 0 /\ t \notin DOMAIN atCall[2] /\ gauge = t
    /\ \A k \in (DOMAIN migrationTimeMetric \cup DOMAIN seenDuration) \ TouchedDuration :
          /\ k \in DOMAIN migrationTimeMetric
          /\ k \in DOMAIN seenDuration
          /\ migrationTimeMetric[k] =
                ClampedSeconds(seenDuration[k].started, seenDuration[k].completed)
    /\ \A k \in TouchedDuration \cap DOMAIN migrationTimeMetric :
          \/ \E n \in ParseableAt(Flatten(resp.body.items), k) :
                migrationTimeMetric[k] =
                    ClampedSeconds(Flatten(resp.body.items)[n].vm.started,
                                   Flatten(resp.body.items)[n].vm.completed)
          \/ SameSeries(migrationTimeMetric, atCall[4], k)
          \/ /\ migrationTimeMetric[k] = WholeSeconds(0)
             /\ k \notin DOMAIN atCall[4]
             /\ gauge = k
    /\ failedMigrationsMetric = NoSeries

\* the migrations list has come back empty, and the duration of an earlier
\* poll and both statuses a VM has had are still there
C6_Witness ==
    /\ CallReturned("migration")
    /\ lastCall.resp.body.items = <<>>
    /\ <<"", VmA>> \in DOMAIN migrationTimeMetric
    /\ migrationTimeMetric[<<"", VmA>>] = WholeSeconds(1043)
    /\ Cardinality(SeriesOfVm("migrationlab", VmA)) = 2

\* C7: a failed call (transport failure, non-200, ...) never ends the loop:
\* the routine returns and the loop is at its next statement, only a request
\* that cannot be built ends the process, and with requests that can be built
\* the loop reaches its sleep and the start of a new cycle again and again,
\* whatever fails.
C7_LoopSurvivesFailures ==
    /\ [][ (ReturnStep /\ ~Succeeded(lastCall'.resp)) =>
              /\ pc' \in {"count", "status", "migration", "sleep"}
              /\ pc' = NextPosition(pc, nsIdx).pc
              /\ nsIdx' = NextPosition(pc, nsIdx).nsIdx
              /\ at' = "call" ]_vars
    /\ [](pc = "panicked" => NewRequestFails(serverURL))
    /\ ~NewRequestFails(serverURL) =>
          /\ []<>(pc = "sleep")
          /\ []<>(pc = "count" /\ nsIdx = 1 /\ at = "call" /\ calls = <<>>)

\* a cycle in which the migrations call got a 403 and no count has ever
\* succeeded has reached its sleep
C7_Witness ==
    /\ pc = "sleep"
    /\ lastCall = Call("migration", "", Forbidden)
    /\ vmCountMetric = NoSeries
    /\ Len(calls) = 5

\* the handler has collected every vector and read every series
Gathered == scrapePc = "gather" /\ toCollect = {} /\ toWrite = {}

\* C8 as stated: the families a scrape returns are the vectors as they are in
\* memory at one moment between the arrival of the request and the end of its
\* gathering.
C8_ReturnsMemory == Gathered => \E m \in snapshots : m = scrapeOut

\* C8, amended: the steps of the handler change no series, send no upstream
\* request and do not move the loop; Collect hands over the series the vector
\* holds at that moment, and each value returned is the value its series has in
\* memory at the moment the handler reads it; no series is returned that is
\* not in memory.
C8_ScrapeOnlyReads ==
    /\ [][ (scrapeVars' # scrapeVars /\ pc' # "panicked") =>
              /\ UNCHANGED <<serverURL, loopVars, metrics, history>>
              /\ (scrapePc = "gather" /\ scrapePc' = "gather") =>
                    /\ \A n \in toCollect \ toCollect' :
                          toWrite' = toWrite \cup { <<n, k>> : k \in DOMAIN Gather[n] }
                    /\ \A n \in Families :
                       \A k \in DOMAIN scrapeOut'[n] \ DOMAIN scrapeOut[n] :
                          /\ <<n, k>> \in toWrite \ toWrite'
                          /\ scrapeOut'[n][k] = Gather[n][k]
                    /\ \A n \in Families :
                       \A k \in DOMAIN scrapeOut[n] :
                          k \in DOMAIN scrapeOut'[n] /\ scrapeOut'[n][k] = scrapeOut[n][k] ]_vars
    /\ [](scrapePc = "gather" =>
            /\ \A n \in Families : DOMAIN scrapeOut[n] \subseteq DOMAIN Gather[n]
            /\ \A w \in toWrite : w[2] \in DOMAIN Gather[w[1]])

\* a response that is the memory of no moment: it has no count series of
\* migrationlab, which was there when the status call was made, and it has the
\* status series of a VM of migrationlab that this call created, read at 0
C8_Witness ==
    /\ Gathered
    /\ pc = "status"
    /\ nsIdx = 1
    /\ at = "set"
    /\ <<"migrationlab">> \in DOMAIN atCall[1]
    /\ <<"migrationlab", VmB, "Running">> \notin DOMAIN atCall[2]
    /\ scrapeOut.virtual_machine_count_total = NoSeries
    /\ <<"migrationlab", VmB, "Running">> \in DOMAIN scrapeOut.virtual_machine_status
    /\ scrapeOut.virtual_machine_status[<<"migrationlab", VmB, "Running">>] = 0

\* the requests of one cycle, in order
CycleOrder ==
    <<<<"count", namespaceList[1]>>, <<"status", namespaceList[1]>>,
      <<"count", namespaceList[2]>>, <<"status", namespaceList[2]>>,
      <<"migration", "">>>>

Routines == {"count", "status", "migration"}

\* C9: the calls of a cycle are made one at a time in the order count, status
\* for each namespace in list order, then migration once: a request is sent
\* only by a routine that is being called, the routine that runs is the one
\* whose request was sent last, the sleep comes after exactly these calls, and
\* the next cycle starts from nothing.
C9_CycleOrder ==
    /\ [](/\ Len(calls) <= Len(CycleOrder)
          /\ calls = SubSeq(CycleOrder, 1, Len(calls))
          /\ pc = "sleep" => calls = CycleOrder
          /\ (pc \in Routines /\ at = "call") =>
                AboutToCall = CycleOrder[Len(calls) + 1]
          /\ (pc \in Routines /\ at # "call") =>
                AboutToCall = calls[Len(calls)])
    /\ [][ calls' # calls =>
              \/ /\ pc \in Routines
                 /\ at = "call"
                 /\ calls' = Append(calls, AboutToCall)
                 /\ at' = "wait"
                 /\ pc' = pc
              \/ /\ pc = "sleep"
                 /\ calls' = <<>>
                 /\ pc' = "count"
                 /\ nsIdx' = 1 ]_vars

\* a cycle at its sleep, all five calls made
C9_Witness ==
    /\ pc = "sleep"
    /\ calls = CycleOrder
    /\ DOMAIN vmCountMetric = {<<"migrationlab">>, <<"default">>}

\* C10: a status series that is 1 stays, with the value 1, in every later
\* state: the set of status series only grows.
C10_StatusSeriesStay ==
    [][ /\ DOMAIN vmStatusMetric \subseteq DOMAIN vmStatusMetric'
        /\ \A t \in DOMAIN vmStatusMetric :
              vmStatusMetric[t] = 1 => vmStatusMetric'[t] = 1 ]_vars

\* a poll that no longer reports a VM whose Running series is still there
C10_Witness ==
    /\ CallReturned("status")
    /\ lastCall.namespace = "default"
    /\ lastCall.resp.body.items = <<>>
    /\ <<"default", VmB, "Running">> \in DOMAIN vmStatusMetric
    /\ vmStatusMetric[<<"default", VmB, "Running">>] = 1

====
